---- MODULE Spec2Model ----
(***************************************************************************)
(* BaseHandler of ts/torch_handler/base_handler.py: the loading-strategy   *)
(* selection of initialize, the inference router and the handle pipeline.  *)
(*                                                                         *)
(* The handler's fields are the variables.  A call is one action: the body *)
(* of the method is a composition of step operators over an execution      *)
(* record x = [self, err, trace, ret], where self holds the fields, err is *)
(* the exception raised so far ("ok" when none), trace lists the external  *)
(* calls made in order and ret is the value a helper returns.  A step does *)
(* nothing once an exception has been raised, which is how Python leaves   *)
(* the assignments made before the raise in place.                         *)
(***************************************************************************)
EXTENDS Integers, Sequences, FiniteSets, TLC

VARIABLES model, mapping, device, initialized, context, manifest,
          map_location, torch_cpp_python_module, torch_api_type,
          last, init_failed, cuda_available, calls

vars == <<model, mapping, device, initialized, context, manifest,
          map_location, torch_cpp_python_module, torch_api_type,
          last, init_failed, cuda_available, calls>>

(***************************************************************************)
(* Python's None and a present value: None is the empty tuple, a value v   *)
(* is the one-element tuple <<v>>.                                         *)
(***************************************************************************)
None == <<>>
Some(v) == <<v>>
Val(o) == o[1]

(***************************************************************************)
(* Bounds of the model.                                                    *)
(***************************************************************************)
MaxClasses == 2
MaxArgs == 2
MaxThreads == 2

(***************************************************************************)
(* Inputs.                                                                 *)
(***************************************************************************)
ApiTypes == {"python", "cpp", "java"}
ModelFiles == {"model.py"}
GpuIds == {0}
ModelDir == "model_dir"
SerializedFile == "model.pt"

\* A deployment context: system_properties may lack the torch_api_type key
\* and manifest['model'] may lack the modelFile key (None stands for a
\* missing key).
Contexts ==
    { [system_properties |-> [model_dir |-> ModelDir, gpu_id |-> g, torch_api_type |-> a],
       manifest |-> [model |-> [serializedFile |-> SerializedFile, modelFile |-> f]]] :
        g \in GpuIds,
        a \in {None} \cup {Some(t) : t \in ApiTypes},
        f \in {None} \cup {Some(m) : m \in ModelFiles} }

\* What a call finds outside the handler: whether an accelerator is
\* available (torch.cuda.is_available(), the same for the whole life of the
\* process), what lies at model_dir/serializedFile, how many classes the
\* class-definition module defines (None: the file is missing), whether the
\* bundled interop source compiles, and the state of index_to_name.json.
\* The artifact is a compiled graph ("script"), a parameter-state blob that
\* fits the model class ("state_dict") or one that does not ("mismatched").
Artifacts == {"absent", "script", "state_dict", "mismatched"}
ModelDefs == {None} \cup {Some(n) : n \in 0..MaxClasses}
IndexFiles == {"absent", "valid", "invalid"}
join(dir, file) == dir \o "/" \o file

isfile(env, path) ==
    CASE path = join(ModelDir, SerializedFile) -> env.artifact # "absent"
      [] path = join(ModelDir, "model.py") -> env.model_def # None
      [] path = join(ModelDir, "index_to_name.json") -> env.index_to_name # "absent"
      [] OTHER -> FALSE

(***************************************************************************)
(* The handler as a record, and the execution record of a call.            *)
(***************************************************************************)
Self ==
    [model |-> model, mapping |-> mapping, device |-> device,
     initialized |-> initialized, context |-> context, manifest |-> manifest,
     map_location |-> map_location,
     torch_cpp_python_module |-> torch_cpp_python_module,
     torch_api_type |-> torch_api_type]

\* BaseHandler.__init__
NewHandler ==
    [model |-> None, mapping |-> None, device |-> None,
     initialized |-> FALSE, context |-> None, manifest |-> None,
     map_location |-> None, torch_cpp_python_module |-> None,
     torch_api_type |-> "python"]

Start(h) == [self |-> h, err |-> "ok", trace |-> <<>>, ret |-> None]
Raised(x) == x.err # "ok"
Raise(x, e) == [x EXCEPT !.err = e]
Call(x, fn, args) == [x EXCEPT !.trace = Append(@, [fn |-> fn, args |-> args])]
Return(x, v) == [x EXCEPT !.ret = v]

Fns(trace) == {trace[i].fn : i \in DOMAIN trace}
Count(trace, fns) == Cardinality({i \in DOMAIN trace : trace[i].fn \in fns})

(***************************************************************************)
(* initialize, lines 36-40: map_location, device and manifest are set from *)
(* the context before anything is checked.                                 *)
(***************************************************************************)
SetDevice(x, ctx, env) ==
    LET loc == IF env.cuda THEN "cuda" ELSE "cpu"
        dev == IF env.cuda
                 THEN loc \o ":" \o ToString(ctx.system_properties.gpu_id)
                 ELSE loc
    IN  [x EXCEPT !.self.map_location = Some(loc),
                  !.self.device = Some(dev),
                  !.self.manifest = Some(ctx.manifest)]

\* lines 42-44
model_pt_path(x, ctx) ==
    join(ctx.system_properties.model_dir, Val(x.self.manifest).model.serializedFile)

\* line 50: self.manifest['model'].get('modelFile', '')
model_file(x) ==
    LET f == Val(x.self.manifest).model.modelFile
    IN  IF f = None THEN "" ELSE Val(f)

\* A variant of CheckArtifact that never looks for the artifact.
CheckArtifact_Skipped(x, ctx, env) == x

(***************************************************************************)
(* initialize, lines 46-47.                                                *)
(***************************************************************************)
CheckArtifact(x, ctx, env) ==
    IF Raised(x) THEN x
    ELSE IF ~isfile(env, model_pt_path(x, ctx))
           THEN Raise(x, "MissingArtifact")
           ELSE x

(***************************************************************************)
(* initialize, line 51: properties["torch_api_type"] raises KeyError when  *)
(* the key is missing, before the assignment.                              *)
(***************************************************************************)
ReadApiType(x, ctx) ==
    IF Raised(x) THEN x
    ELSE IF ctx.system_properties.torch_api_type = None
           THEN Raise(x, "KeyError")
           ELSE [x EXCEPT !.self.torch_api_type = Val(ctx.system_properties.torch_api_type)]

(***************************************************************************)
(* _load_torchscript_model, lines 85-86.                                   *)
(***************************************************************************)
_load_torchscript_model(x, env, path) ==
    LET c == Call(x, "_load_torchscript_model", <<path>>)
    IN  IF env.artifact = "script"
          THEN Return(c, Some([producer |-> "torch.jit.load",
                               device |-> Val(x.self.map_location),
                               training |-> TRUE]))
          ELSE Raise(c, "ArtifactLoadError")

\* ..utils.util.list_classes_from_module: the classes the module defines.
list_classes_from_module(env) ==
    [i \in 1..Val(env.model_def) |-> i]

\* A variant of _load_pickled_model that takes the first class of the module
\* whenever there is one.
_load_pickled_model_FirstClass(x, env, dir, file, path) ==
    LET c0 == Call(x, "_load_pickled_model", <<dir, file, path>>)
        model_def_path == join(dir, file)
    IN  IF ~isfile(env, model_def_path) THEN Raise(c0, "MissingClassDefinitionFile")
        ELSE
        LET c1 == Call(c0, "import_module", <<file>>)
            model_class_definitions == list_classes_from_module(env)
        IN  IF Len(model_class_definitions) < 1 THEN Raise(c1, "AmbiguousModelDefinition")
            ELSE
            LET c2 == Call(c1, "torch.load", <<path>>)
            IN  IF env.artifact = "script" THEN Raise(c2, "ArtifactLoadError")
                ELSE
                LET c3 == Call(c2, "model_class", <<model_class_definitions[1]>>)
                    c4 == Call(c3, "load_state_dict", <<>>)
                IN  IF env.artifact # "state_dict" THEN Raise(c4, "ParameterMismatch")
                    ELSE Return(c4, Some([producer |-> "model_class",
                                          device |-> "cpu",
                                          training |-> TRUE]))

(***************************************************************************)
(* _load_pickled_model, lines 88-103.                                      *)
(***************************************************************************)
_load_pickled_model(x, env, dir, file, path) ==
    LET c0 == Call(x, "_load_pickled_model", <<dir, file, path>>)
        model_def_path == join(dir, file)
    IN  IF ~isfile(env, model_def_path) THEN Raise(c0, "MissingClassDefinitionFile")
        ELSE
        LET c1 == Call(c0, "import_module", <<file>>)
            model_class_definitions == list_classes_from_module(env)
        IN  IF Len(model_class_definitions) # 1 THEN Raise(c1, "AmbiguousModelDefinition")
            ELSE
            LET c2 == Call(c1, "torch.load", <<path>>)
            IN  IF env.artifact = "script" THEN Raise(c2, "ArtifactLoadError")
                ELSE
                LET c3 == Call(c2, "model_class", <<model_class_definitions[1]>>)
                    c4 == Call(c3, "load_state_dict", <<>>)
                IN  IF env.artifact # "state_dict" THEN Raise(c4, "ParameterMismatch")
                    ELSE Return(c4, Some([producer |-> "model_class",
                                          device |-> "cpu",
                                          training |-> TRUE]))

\* A variant of LoadPython that selects the loaders the wrong way round.
LoadPython_Swapped(x, ctx, env) ==
    LET r == IF model_file(x) = ""
               THEN _load_pickled_model(x, env, ctx.system_properties.model_dir,
                                        "model.py", model_pt_path(x, ctx))
               ELSE _load_torchscript_model(x, env, model_pt_path(x, ctx))
    IN  IF Raised(r) THEN r
        ELSE [r EXCEPT !.self.model =
                  Some([Val(r.ret) EXCEPT !.device = Val(x.self.device),
                                          !.training = FALSE]),
                       !.ret = None]

(***************************************************************************)
(* initialize, lines 53-62: the native ('python') branch.                  *)
(***************************************************************************)
LoadPython(x, ctx, env) ==
    LET r == IF model_file(x) # ""
               THEN _load_pickled_model(x, env, ctx.system_properties.model_dir,
                                        model_file(x), model_pt_path(x, ctx))
               ELSE _load_torchscript_model(x, env, model_pt_path(x, ctx))
    IN  IF Raised(r) THEN r
        ELSE [r EXCEPT !.self.model =
                  Some([Val(r.ret) EXCEPT !.device = Val(x.self.device),
                                          !.training = FALSE]),
                       !.ret = None]

\* A variant of LoadCpp without the check of lines 65-66.
LoadCpp_NoEagerCheck(x, ctx, env) ==
    LET c0 == Call(x, "load", <<"torch_cpp_python_bindings.cpp">>)
    IN  IF ~env.compile_ok THEN Raise(c0, "CompileError")
        ELSE
        LET c1 == [c0 EXCEPT !.self.torch_cpp_python_module = Some("torch_cpp_python_bindings")]
            c2 == Call(c1, "load_model",
                       <<model_pt_path(x, ctx), Val(x.self.map_location), Val(x.self.device)>>)
        IN  IF env.artifact # "script" THEN Raise(c2, "ArtifactLoadError")
            ELSE [c2 EXCEPT !.self.model =
                      Some([producer |-> "load_model",
                            device |-> Val(x.self.device),
                            training |-> FALSE])]

(***************************************************************************)
(* initialize, lines 64-73: the foreign ('cpp') branch.                    *)
(***************************************************************************)
LoadCpp(x, ctx, env) ==
    IF model_file(x) # "" THEN Raise(x, "UnsupportedCombination")
    ELSE
    LET c0 == Call(x, "load", <<"torch_cpp_python_bindings.cpp">>)
    IN  IF ~env.compile_ok THEN Raise(c0, "CompileError")
        ELSE
        LET c1 == [c0 EXCEPT !.self.torch_cpp_python_module = Some("torch_cpp_python_bindings")]
            c2 == Call(c1, "load_model",
                       <<model_pt_path(x, ctx), Val(x.self.map_location), Val(x.self.device)>>)
        IN  IF env.artifact # "script" THEN Raise(c2, "ArtifactLoadError")
            ELSE [c2 EXCEPT !.self.model =
                      Some([producer |-> "load_model",
                            device |-> Val(x.self.device),
                            training |-> FALSE])]

\* A variant of LoadModel whose last branch falls back to the native path.
LoadModel_DefaultPython(x, ctx, env) ==
    IF Raised(x) THEN x
    ELSE IF x.self.torch_api_type = "cpp" THEN LoadCpp(x, ctx, env)
    ELSE LoadPython(x, ctx, env)

(***************************************************************************)
(* initialize, lines 53-75: the dispatch on torch_api_type.                *)
(***************************************************************************)
LoadModel(x, ctx, env) ==
    IF Raised(x) THEN x
    ELSE IF x.self.torch_api_type = "python" THEN LoadPython(x, ctx, env)
    ELSE IF x.self.torch_api_type = "cpp" THEN LoadCpp(x, ctx, env)
    ELSE Raise(x, "UnsupportedExecutionAPI")

\* ..utils.util.load_label_mapping: no mapping when the file is absent, the
\* parsed mapping when it is a JSON object, an exception otherwise.
LabelMap == [k \in {"0", "1"} |-> IF k = "0" THEN "cat" ELSE "dog"]

load_label_mapping(x, env, path) ==
    LET c == Call(x, "load_label_mapping", <<path>>)
    IN  IF ~isfile(env, path) THEN Return(c, None)
        ELSE IF env.index_to_name = "valid" THEN Return(c, Some(LabelMap))
        ELSE Raise(c, "MappingLoadError")

\* A variant of LoadMapping that loads the mapping on the native path alone.
LoadMapping_NativeOnly(x, ctx, env) ==
    IF Raised(x) \/ x.self.torch_api_type # "python" THEN x
    ELSE
    LET r == load_label_mapping(x, env, join(ctx.system_properties.model_dir,
                                             "index_to_name.json"))
    IN  IF Raised(r) THEN r
        ELSE [r EXCEPT !.self.mapping = r.ret, !.ret = None]

\* A variant of LoadMapping that sets the flag before the mapping is loaded.
LoadMapping_FlagFirst(x, ctx, env) ==
    IF Raised(x) THEN x
    ELSE
    LET f == [x EXCEPT !.self.initialized = TRUE]
        r == load_label_mapping(f, env, join(ctx.system_properties.model_dir,
                                             "index_to_name.json"))
    IN  IF Raised(r) THEN r
        ELSE [r EXCEPT !.self.mapping = r.ret, !.ret = None]

(***************************************************************************)
(* initialize, lines 80-81.                                                *)
(***************************************************************************)
LoadMapping(x, ctx, env) ==
    IF Raised(x) THEN x
    ELSE
    LET r == load_label_mapping(x, env, join(ctx.system_properties.model_dir,
                                             "index_to_name.json"))
    IN  IF Raised(r) THEN r
        ELSE [r EXCEPT !.self.mapping = r.ret, !.ret = None]

(***************************************************************************)
(* initialize, line 83.                                                    *)
(***************************************************************************)
SetInitialized(x) ==
    IF Raised(x) THEN x
    ELSE [x EXCEPT !.self.initialized = TRUE]

(***************************************************************************)
(* BaseHandler.initialize, lines 33-83.                                    *)
(***************************************************************************)
initialize(h, ctx, env) ==
    SetInitialized(
      LoadMapping(
        LoadModel(
          ReadApiType(
            CheckArtifact(
              SetDevice(Start(h), ctx, env), ctx, env), ctx), ctx, env), ctx, env))

(***************************************************************************)
(* Requests.  A payload is a list of numbers or something as_tensor cannot *)
(* convert; a tensor carries its values and the device it lives on.  What  *)
(* the backend gives back is decided outside the handler: a tensor, an     *)
(* exception, or a value that is no tensor.                                *)
(***************************************************************************)
Payloads == {[kind |-> "numbers", vals |-> <<1, 2>>], [kind |-> "text", vals |-> <<>>]}
RequestContexts == {"request_1", "request_2"}
Tensor(vals, dev) == [type |-> "Tensor", vals |-> vals, device |-> dev]
Tensors == {Tensor(<<1, 2>>, "cpu")}
ArgValues == {"a", "b"}
RECURSIVE SeqsUpTo(_, _)
SeqsUpTo(S, n) ==
    IF n = 0 THEN {<<>>}
    ELSE LET shorter == SeqsUpTo(S, n - 1)
         IN  shorter \cup {Append(q, v) : q \in {r \in shorter : Len(r) = n - 1}, v \in S}
ArgLists == SeqsUpTo(ArgValues, MaxArgs)
KwargNames == {"k"}
KwargSets == {[n \in S |-> "v"] : S \in SUBSET KwargNames}
Backends == {"tensor", "raises", "tuple"}

\* The forward pass of a loaded model, or run_model of the foreign module.
Forward(backend, t, dev) ==
    IF backend = "tensor"
      THEN Tensor([i \in DOMAIN t.vals |-> t.vals[i] + 1], dev)
      ELSE [type |-> "tuple", vals |-> t.vals, device |-> dev]

(***************************************************************************)
(* preprocess, lines 105-111: torch.as_tensor(data, device=self.device).   *)
(***************************************************************************)
preprocess(x, data) ==
    IF Raised(x) THEN x
    ELSE
    LET c == Call(x, "preprocess", <<data>>)
        v == Tensor(data.vals, IF x.self.device = None THEN "cpu" ELSE Val(x.self.device))
    IN  IF data.kind # "numbers" THEN Raise(c, "ValueError")
        ELSE Return(Call(c, "preprocess:return", <<v>>), Some(v))

\* line 119: data.to(self.device)
to(t, dev) == IF dev = None THEN t ELSE [t EXCEPT !.device = Val(dev)]

\* line 122: self.model(marshalled_data, *args, **kwargs)
CallModel(x, marshalled_data, args, kwargs, backend) ==
    IF x.self.model = None \/ Val(x.self.model).producer = "load_model"
      THEN Raise(x, "TypeError")
    ELSE
    LET c == Call(x, "model", <<x.self.model, <<marshalled_data>> \o args, kwargs>>)
    IN  IF backend = "raises" THEN Raise(c, "ModelError")
        ELSE Return(c, Some(Forward(backend, marshalled_data, Val(x.self.model).device)))

\* len() of a keyword-argument dictionary
len(kwargs) == Cardinality(DOMAIN kwargs)

\* A variant of RunForeign that lets keyword arguments through.
RunForeign_NoKwargsCheck(x, marshalled_data, args, kwargs, backend) ==
    LET params == <<marshalled_data>> \o args
    IN  IF x.self.torch_cpp_python_module = None THEN Raise(x, "AttributeError")
        ELSE
        LET c == Call(x, "run_model", <<x.self.model, params, kwargs>>)
        IN  IF x.self.model = None \/ Val(x.self.model).producer # "load_model"
              THEN Raise(c, "ForeignError")
            ELSE IF backend = "raises" THEN Raise(c, "ModelError")
            ELSE Return(c, Some(Forward(backend, marshalled_data, Val(x.self.model).device)))

\* A variant of RunForeign that inserts each extra right after the input,
\* which reverses their order.
RunForeign_ExtrasReversed(x, marshalled_data, args, kwargs, backend) ==
    IF len(kwargs) # 0 THEN Raise(x, "UnsupportedArguments")
    ELSE
    LET params == <<marshalled_data>> \o [i \in 1..Len(args) |-> args[Len(args) + 1 - i]]
    IN  IF x.self.torch_cpp_python_module = None THEN Raise(x, "AttributeError")
        ELSE
        LET c == Call(x, "run_model", <<x.self.model, params, kwargs>>)
        IN  IF x.self.model = None \/ Val(x.self.model).producer # "load_model"
              THEN Raise(c, "ForeignError")
            ELSE IF backend = "raises" THEN Raise(c, "ModelError")
            ELSE Return(c, Some(Forward(backend, marshalled_data, Val(x.self.model).device)))

\* lines 124-128: the foreign branch
RunForeign(x, marshalled_data, args, kwargs, backend) ==
    IF len(kwargs) # 0 THEN Raise(x, "UnsupportedArguments")
    ELSE
    LET params == <<marshalled_data>> \o args
    IN  IF x.self.torch_cpp_python_module = None THEN Raise(x, "AttributeError")
        ELSE
        LET c == Call(x, "run_model", <<x.self.model, params, kwargs>>)
        IN  IF x.self.model = None \/ Val(x.self.model).producer # "load_model"
              THEN Raise(c, "ForeignError")
            ELSE IF backend = "raises" THEN Raise(c, "ModelError")
            ELSE Return(c, Some(Forward(backend, marshalled_data, Val(x.self.model).device)))

(***************************************************************************)
(* inference, lines 113-129.                                               *)
(***************************************************************************)
inference(x, data, args, kwargs, backend) ==
    IF Raised(x) THEN x
    ELSE
    LET c == Call(x, "inference", <<data, args, kwargs>>)
        marshalled_data == to(data, x.self.device)
        r == IF x.self.torch_api_type = "python"
               THEN CallModel(c, marshalled_data, args, kwargs, backend)
               ELSE RunForeign(c, marshalled_data, args, kwargs, backend)
    IN  IF Raised(r) THEN r ELSE Call(r, "inference:return", <<Val(r.ret)>>)

(***************************************************************************)
(* postprocess, lines 131-138: data.tolist().                              *)
(***************************************************************************)
postprocess(x, data) ==
    IF Raised(x) THEN x
    ELSE
    LET c == Call(x, "postprocess", <<data>>)
    IN  IF data.type # "Tensor" THEN Raise(c, "AttributeError")
        ELSE Return(Call(c, "postprocess:return", <<data.vals>>), Some(data.vals))

\* A variant of handle that marks the handler as not initialized when a
\* stage raises.
handle_ResetOnError(h, data, ctx, backend) ==
    LET x0 == Start([h EXCEPT !.context = Some(ctx)])
        x1 == preprocess(x0, data)
        x2 == IF Raised(x1) THEN x1
              ELSE inference(x1, Val(x1.ret), <<>>, <<>>, backend)
        x3 == IF Raised(x2) THEN x2 ELSE postprocess(x2, Val(x2.ret))
    IN  IF Raised(x3) THEN [x3 EXCEPT !.self.initialized = FALSE] ELSE x3

\* A variant of handle that returns what inference gave, unconverted.
handle_NoPostprocess(h, data, ctx, backend) ==
    LET x0 == Start([h EXCEPT !.context = Some(ctx)])
        x1 == preprocess(x0, data)
    IN  IF Raised(x1) THEN x1
        ELSE inference(x1, Val(x1.ret), <<>>, <<>>, backend)

(***************************************************************************)
(* handle, lines 140-152.                                                  *)
(***************************************************************************)
handle(h, data, ctx, backend) ==
    LET x0 == Start([h EXCEPT !.context = Some(ctx)])
        x1 == preprocess(x0, data)
        x2 == IF Raised(x1) THEN x1
              ELSE inference(x1, Val(x1.ret), <<>>, <<>>, backend)
    IN  IF Raised(x2) THEN x2 ELSE postprocess(x2, Val(x2.ret))

(***************************************************************************)
(* The record of the last call, for the properties to speak about.         *)
(***************************************************************************)
NoCall ==
    [op |-> "none", err |-> "ok", trace |-> <<>>, ctx |-> None,
     artifact |-> None, model_def |-> None, index_to_name |-> None,
     data |-> None, args |-> None, kwargs |-> None, result |-> None]

Store(h) ==
    /\ model' = h.model
    /\ mapping' = h.mapping
    /\ device' = h.device
    /\ initialized' = h.initialized
    /\ context' = h.context
    /\ manifest' = h.manifest
    /\ map_location' = h.map_location
    /\ torch_cpp_python_module' = h.torch_cpp_python_module
    /\ torch_api_type' = h.torch_api_type

\* The callers of handle, and a caller that is not inside handle.
Threads == 1..MaxThreads
Outside == [pc |-> "outside", ctx |-> None, data |-> None]

Init ==
    /\ model = None /\ mapping = None /\ device = None /\ initialized = FALSE
    /\ context = None /\ manifest = None /\ map_location = None
    /\ torch_cpp_python_module = None /\ torch_api_type = "python"
    /\ last = NoCall
    /\ init_failed = FALSE
    /\ cuda_available \in BOOLEAN
    /\ calls = [t \in Threads |-> Outside]
    /\ Self = NewHandler

(***************************************************************************)
(* A call of initialize(context).  The environment is enumerated only in   *)
(* the facts the call reads: a fact whose reader is not in the call's      *)
(* trace is left at its default, since it cannot influence the call.       *)
(***************************************************************************)
DefaultEnv(cuda, artifact) ==
    [cuda |-> cuda, artifact |-> artifact, model_def |-> Some(1),
     compile_ok |-> TRUE, index_to_name |-> "absent"]

Reads(h, ctx, env, fn) == fn \in Fns(initialize(h, ctx, env).trace)

Initialize ==
    \E ctx \in Contexts, artifact \in Artifacts :
      LET e0 == DefaultEnv(cuda_available, artifact) IN
      \E model_def \in (IF Reads(Self, ctx, e0, "_load_pickled_model")
                           THEN ModelDefs ELSE {e0.model_def}),
         compile_ok \in (IF Reads(Self, ctx, e0, "load")
                           THEN BOOLEAN ELSE {e0.compile_ok}) :
        LET e1 == [e0 EXCEPT !.model_def = model_def, !.compile_ok = compile_ok] IN
        \E index_to_name \in (IF Reads(Self, ctx, e1, "load_label_mapping")
                                THEN IndexFiles ELSE {e1.index_to_name}) :
          LET env == [e1 EXCEPT !.index_to_name = index_to_name]
              x == initialize(Self, ctx, env)
          IN  /\ Store(x.self)
              /\ last' = [NoCall EXCEPT !.op = "initialize", !.err = x.err,
                                        !.trace = x.trace, !.ctx = Some(ctx),
                                        !.artifact = Some(artifact),
                                        !.model_def = Some(model_def),
                                        !.index_to_name = Some(index_to_name)]
              /\ init_failed' = (init_failed \/ Raised(x))
              /\ UNCHANGED <<cuda_available, calls>>

(***************************************************************************)
(* A direct call of inference(data, *args, **kwargs), as a subclass or a   *)
(* caller may make it.  The backend's answer is enumerated only when the   *)
(* call reaches the backend.                                               *)
(***************************************************************************)
Reaches(trace) == Fns(trace) \cap {"model", "run_model"} # {}

Inference ==
    \E data \in Tensors, args \in ArgLists, kwargs \in KwargSets :
      \E backend \in (IF Reaches(inference(Start(Self), data, args, kwargs, "tensor").trace)
                        THEN Backends ELSE {"tensor"}) :
        LET x == inference(Start(Self), data, args, kwargs, backend)
        IN  /\ Store(x.self)
            /\ last' = [NoCall EXCEPT !.op = "inference", !.err = x.err,
                                      !.trace = x.trace, !.data = Some(data),
                                      !.args = Some(args), !.kwargs = Some(kwargs),
                                      !.result = IF Raised(x) THEN None ELSE x.ret]
            /\ UNCHANGED <<init_failed, cuda_available, calls>>

(***************************************************************************)
(* A call of handle(data, context).                                        *)
(***************************************************************************)
Handle ==
    \E data \in Payloads, ctx \in RequestContexts :
      \E backend \in (IF Reaches(handle(Self, data, ctx, "tensor").trace)
                        THEN Backends ELSE {"tensor"}) :
        LET x == handle(Self, data, ctx, backend)
        IN  /\ Store(x.self)
            /\ last' = [NoCall EXCEPT !.op = "handle", !.err = x.err,
                                      !.trace = x.trace, !.ctx = Some(ctx),
                                      !.data = Some(data),
                                      !.result = IF Raised(x) THEN None ELSE x.ret]
            /\ UNCHANGED <<init_failed, cuda_available, calls>>

Next ==
    \/ Initialize
    \/ Inference
    \/ Handle

Spec == Init /\ [][Next]_vars

(***************************************************************************)
(* handle called by several threads on one handler, a statement at a time: *)
(* line 147, then lines 149, 150 and 151-152, each reading the handler as  *)
(* it is when the statement runs.  calls[t] holds where thread t is inside *)
(* handle, the context it was called with and its local variable data.     *)
(* The callers let initialize finish before any handle call, and call it   *)
(* no more once the handler is Ready.                                      *)
(***************************************************************************)
ReadyInitialize ==
    /\ ~initialized
    /\ Initialize

Leave(t, x, next) ==
    calls' = [calls EXCEPT ![t] =
                 IF Raised(x) \/ next = "outside" THEN Outside
                 ELSE [@ EXCEPT !.pc = next, !.data = x.ret]]

\* line 147: self.context = context
HandleEnter(t) ==
    /\ initialized
    /\ calls[t].pc = "outside"
    /\ \E data \in Payloads, ctx \in RequestContexts :
          /\ context' = Some(ctx)
          /\ calls' = [calls EXCEPT ![t] =
                          [pc |-> "preprocess", ctx |-> Some(ctx), data |-> Some(data)]]
    /\ UNCHANGED <<model, mapping, device, initialized, manifest, map_location,
                   torch_cpp_python_module, torch_api_type, last, init_failed,
                   cuda_available>>

\* line 149: data = self.preprocess(data)
HandlePreprocess(t) ==
    /\ calls[t].pc = "preprocess"
    /\ LET x == preprocess(Start(Self), Val(calls[t].data))
       IN  /\ Store(x.self)
           /\ Leave(t, x, "inference")
    /\ UNCHANGED <<last, init_failed, cuda_available>>

\* line 150: data = self.inference(data)
HandleInference(t) ==
    /\ calls[t].pc = "inference"
    /\ \E backend \in Backends :
          LET x == inference(Start(Self), Val(calls[t].data), <<>>, <<>>, backend)
          IN  /\ Store(x.self)
              /\ Leave(t, x, "postprocess")
    /\ UNCHANGED <<last, init_failed, cuda_available>>

\* lines 151-152: data = self.postprocess(data); return data
HandlePostprocess(t) ==
    /\ calls[t].pc = "postprocess"
    /\ LET x == postprocess(Start(Self), Val(calls[t].data))
       IN  /\ Store(x.self)
           /\ Leave(t, x, "outside")
    /\ UNCHANGED <<last, init_failed, cuda_available>>

ConcurrentNext ==
    \/ ReadyInitialize
    \/ \E t \in Threads : HandleEnter(t)
    \/ \E t \in Threads : HandlePreprocess(t)
    \/ \E t \in Threads : HandleInference(t)
    \/ \E t \in Threads : HandlePostprocess(t)

SpecConcurrent == Init /\ [][ConcurrentNext]_vars

(***************************************************************************)
(* Vocabulary of the properties.                                           *)
(***************************************************************************)
Loaders == {"_load_pickled_model", "_load_torchscript_model", "load_model"}
LoadSteps == Loaders \cup {"load"}
InitCall == last.op = "initialize"
InitApi == Val(last.ctx).system_properties.torch_api_type
InitModelFile ==
    LET f == Val(last.ctx).manifest.model.modelFile
    IN  IF f = None THEN "" ELSE Val(f)
InitArtifact == Val(last.artifact)
InitLoaders == Fns(last.trace) \cap Loaders
HandlerFieldsUnchanged ==
    /\ model' = model
    /\ device' = device
    /\ map_location' = map_location
    /\ manifest' = manifest
    /\ torch_api_type' = torch_api_type
    /\ torch_cpp_python_module' = torch_cpp_python_module
    /\ mapping' = mapping
    /\ initialized' = initialized

(***************************************************************************)
(* C1: a call of initialize turns initialized from false to true only when *)
(* it raised nothing, the artifact was there, the api_type was 'python' or *)
(* 'cpp', a loader ran and assigned the model, and the label-mapping load  *)
(* was the last call made; a call that raises on a handler that is not     *)
(* initialized (a fresh one included) leaves initialized false.            *)
(***************************************************************************)
C1_InitializedSetLast ==
    [][ last'.op = "initialize" =>
          /\ (~initialized /\ initialized') =>
                /\ last'.err = "ok"
                /\ Val(last'.artifact) # "absent"
                /\ torch_api_type' \in {"python", "cpp"}
                /\ Count(last'.trace, Loaders) = 1
                /\ model' # None
                /\ last'.trace[Len(last'.trace)].fn = "load_label_mapping"
          /\ (~initialized /\ last'.err # "ok") => ~initialized' ]_vars

\* C1 witness: a call that failed at its last step, the mapping load, with
\* the model already assigned, and the flag still false.
C1_Witness ==
    /\ InitCall
    /\ last.err = "MappingLoadError"
    /\ model # None
    /\ ~initialized

(***************************************************************************)
(* C2, as claimed: a call of initialize that raises leaves model, device,  *)
(* map_location, manifest, torch_api_type, torch_cpp_python_module,        *)
(* mapping and initialized as they were before the call.                   *)
(***************************************************************************)
C2_AllOrNothing ==
    [][ (last'.op = "initialize" /\ last'.err # "ok") => HandlerFieldsUnchanged ]_vars

(***************************************************************************)
(* C3, as claimed: once an initialize call has failed, no handle call      *)
(* reaches the backend (the model or run_model) or returns a result.       *)
(***************************************************************************)
C3_FailedInitBlocksHandle ==
    (init_failed /\ last.op = "handle") =>
        /\ ~Reaches(last.trace)
        /\ last.err # "ok"
        /\ last.result = None

(***************************************************************************)
(* C4, as claimed: once initialized is true, no call changes               *)
(* torch_api_type, model or torch_cpp_python_module, and initialized stays *)
(* true.                                                                   *)
(***************************************************************************)
C4_BackendImmutable ==
    [][ initialized =>
          /\ initialized'
          /\ torch_api_type' = torch_api_type
          /\ model' = model
          /\ torch_cpp_python_module' = torch_cpp_python_module ]_vars

(***************************************************************************)
(* C5, as claimed: with api_type 'cpp' and a model_file, initialize raises *)
(* the unsupported-combination error whatever the state of the artifact,   *)
(* and runs no loader and no compilation.                                  *)
(***************************************************************************)
C5_Original ==
    (InitCall /\ InitApi = Some("cpp") /\ InitModelFile # "") =>
        /\ last.err = "UnsupportedCombination"
        /\ Fns(last.trace) \cap LoadSteps = {}

(***************************************************************************)
(* C5, amended: with api_type 'cpp' and a model_file, initialize raises    *)
(* the unsupported-combination error whenever the artifact exists, be it   *)
(* loadable or not, and the missing-artifact error when it does not; in    *)
(* both cases no loader and no compilation runs and the model, the foreign *)
(* module and initialized are left alone.                                  *)
(***************************************************************************)
C5_UnsupportedCombination ==
    [][ (last'.op = "initialize"
           /\ Val(last'.ctx).system_properties.torch_api_type = Some("cpp")
           /\ Val(last'.ctx).manifest.model.modelFile # None
           /\ Val(Val(last'.ctx).manifest.model.modelFile) # "") =>
          /\ last'.err = IF Val(last'.artifact) = "absent"
                           THEN "MissingArtifact" ELSE "UnsupportedCombination"
          /\ Fns(last'.trace) \cap LoadSteps = {}
          /\ model' = model
          /\ torch_cpp_python_module' = torch_cpp_python_module
          /\ initialized' = initialized ]_vars

\* C5 witness: the combination was refused with an artifact in place that
\* the foreign loader could not have loaded.
C5_Witness ==
    /\ InitCall
    /\ InitApi = Some("cpp")
    /\ InitModelFile # ""
    /\ InitArtifact = "mismatched"
    /\ last.err = "UnsupportedCombination"

(***************************************************************************)
(* C6: when model_dir/serializedFile does not exist, initialize raises the *)
(* missing-artifact error whatever api_type (a missing key included) and   *)
(* model_file are; it has made no call by then and torch_api_type, model,  *)
(* the foreign module, mapping and initialized are as before the call.     *)
(***************************************************************************)
C6_MissingArtifactFirst ==
    [][ (last'.op = "initialize" /\ Val(last'.artifact) = "absent") =>
          /\ last'.err = "MissingArtifact"
          /\ last'.trace = <<>>
          /\ torch_api_type' = torch_api_type
          /\ model' = model
          /\ torch_cpp_python_module' = torch_cpp_python_module
          /\ mapping' = mapping
          /\ initialized' = initialized ]_vars

\* C6 witness: the artifact was missing in a call whose api_type is not a
\* supported one and whose manifest names a model_file, on a handler whose
\* torch_api_type had been set to 'cpp' before.
C6_Witness ==
    /\ InitCall
    /\ InitArtifact = "absent"
    /\ InitApi = Some("java")
    /\ InitModelFile # ""
    /\ torch_api_type = "cpp"
    /\ last.err = "MissingArtifact"

(***************************************************************************)
(* C7, as claimed: the loader is selected by (api_type, model_file), at    *)
(* most one loader runs, at most once, and an initialize that returns      *)
(* leaves model, device, mapping and torch_api_type populated with         *)
(* initialized true.                                                       *)
(***************************************************************************)
SelectedLoader(api, file) ==
    IF api = Some("python") /\ file # "" THEN {"_load_pickled_model"}
    ELSE IF api = Some("python") THEN {"_load_torchscript_model"}
    ELSE IF api = Some("cpp") /\ file = "" THEN {"load_model"}
    ELSE {}

LoaderSelection ==
    /\ Count(last.trace, Loaders) <= 1
    /\ InitLoaders \subseteq SelectedLoader(InitApi, InitModelFile)
    /\ (InitArtifact # "absent" /\ InitApi = Some("python")) =>
          InitLoaders = SelectedLoader(InitApi, InitModelFile)
    /\ (InitArtifact # "absent" /\ InitApi = Some("cpp") /\ last.err # "CompileError") =>
          InitLoaders = SelectedLoader(InitApi, InitModelFile)

C8_UnsupportedApi ==
    [][ (last'.op = "initialize"
           /\ Val(last'.artifact) # "absent"
           /\ Val(last'.ctx).system_properties.torch_api_type # None
           /\ Val(Val(last'.ctx).system_properties.torch_api_type) \notin {"python", "cpp"}) =>
          /\ last'.err = "UnsupportedExecutionAPI"
          /\ Fns(last'.trace) \cap LoadSteps = {}
          /\ initialized' = initialized
          /\ model' = model ]_vars

\* C8 witness: an unsupported api_type was refused on a handler that is
\* not Ready, with a loadable artifact in place.
C8_Witness ==
    /\ InitCall
    /\ InitApi = Some("java")
    /\ InitArtifact = "script"
    /\ last.err = "UnsupportedExecutionAPI"
    /\ ~initialized

(***************************************************************************)
(* C9: when torch_api_type is not 'python' (the foreign backend, 'cpp'),   *)
(* an inference call with keyword arguments raises the unsupported-        *)
(* arguments error and does not call run_model; when it is 'python', no    *)
(* inference call raises that error, and the model, when it is a native    *)
(* one, is called with the keyword arguments.                              *)
(***************************************************************************)
C9_KeywordArguments ==
    last.op = "inference" =>
      /\ (torch_api_type # "python" /\ len(Val(last.kwargs)) # 0) =>
            /\ last.err = "UnsupportedArguments"
            /\ ~Reaches(last.trace)
      /\ torch_api_type = "python" =>
            /\ last.err # "UnsupportedArguments"
            /\ (model # None /\ Val(model).producer # "load_model") =>
                  /\ Count(last.trace, {"model"}) = 1
                  /\ \A i \in DOMAIN last.trace :
                        last.trace[i].fn = "model" =>
                            last.trace[i].args[3] = Val(last.kwargs)

\* C9 witness: keyword arguments were refused on a Ready foreign backend.
C9_Witness ==
    /\ last.op = "inference"
    /\ initialized
    /\ torch_api_type = "cpp"
    /\ torch_cpp_python_module # None
    /\ len(Val(last.kwargs)) # 0
    /\ last.err = "UnsupportedArguments"

(***************************************************************************)
(* C10: on a foreign backend (torch_api_type is not 'python' and the       *)
(* foreign module is loaded), an inference call with input d, extras       *)
(* a1..an and no keyword arguments calls run_model exactly once, with the  *)
(* stored model and the list [d', a1, ..., an], d' being d on the          *)
(* handler's device.                                                       *)
(***************************************************************************)
C10_ForeignArguments ==
    (/\ last.op = "inference"
     /\ torch_api_type # "python"
     /\ torch_cpp_python_module # None
     /\ len(Val(last.kwargs)) = 0) =>
        /\ Count(last.trace, {"run_model"}) = 1
        /\ Count(last.trace, {"model"}) = 0
        /\ \A i \in DOMAIN last.trace :
              last.trace[i].fn = "run_model" =>
                LET params == last.trace[i].args[2]
                    extras == Val(last.args)
                IN  /\ last.trace[i].args[1] = model
                    /\ Len(params) = 1 + Len(extras)
                    /\ params[1] = Tensor(Val(last.data).vals, Val(device))
                    /\ \A k \in 1..Len(extras) : params[k + 1] = extras[k]

\* C10 witness: run_model was called on a Ready foreign backend with two
\* different extras and an input that had to be moved to the device.
C10_Witness ==
    /\ last.op = "inference"
    /\ initialized
    /\ torch_api_type = "cpp"
    /\ Val(model).producer = "load_model"
    /\ Val(last.args) = <<"a", "b">>
    /\ Val(last.data).device # Val(device)
    /\ last.err = "ok"
    /\ "run_model" \in Fns(last.trace)


(***************************************************************************)
(* The stages of the last handle call: the calls of preprocess, inference  *)
(* and postprocess in the order they were made, and their returns.         *)
(***************************************************************************)
Stages == <<"preprocess", "inference", "postprocess">>
StageReturns == <<"preprocess:return", "inference:return", "postprocess:return">>
Named(trace, names) ==
    LET Among(e) == \E i \in DOMAIN names : e.fn = names[i]
    IN  SelectSeq(trace, Among)
NamesOf(entries) == [i \in DOMAIN entries |-> entries[i].fn]

(***************************************************************************)
(* C11: a handle call runs preprocess, inference and postprocess in that   *)
(* order, each at most once; preprocess gets the request data, inference   *)
(* gets what preprocess returned and no extra arguments, postprocess gets  *)
(* what inference returned; when a stage raises no later stage runs and    *)
(* the call raises; when none raises, all three run and the call returns   *)
(* what postprocess returned.                                              *)
(***************************************************************************)
C11_Pipeline ==
    last.op = "handle" =>
      LET ran == Named(last.trace, Stages)
          rets == Named(last.trace, StageReturns)
      IN  /\ Len(ran) \in 1..3
          /\ NamesOf(ran) = SubSeq(Stages, 1, Len(ran))
          /\ NamesOf(rets) = SubSeq(StageReturns, 1, Len(rets))
          /\ Len(rets) \in {Len(ran) - 1, Len(ran)}
          /\ (Len(rets) < Len(ran)) <=> (last.err # "ok")
          /\ (Len(rets) = Len(ran)) => Len(ran) = 3
          /\ last.err # "ok" => last.result = None
          /\ ran[1].args = <<Val(last.data)>>
          /\ Len(ran) >= 2 => ran[2].args = <<rets[1].args[1], <<>>, <<>>>>
          /\ Len(ran) >= 3 => ran[3].args = <<rets[2].args[1]>>
          /\ last.err = "ok" => last.result = Some(rets[3].args[1])

\* C11 witness: a handle call on a Ready handler went through the three
\* stages and returned a list.
C11_Witness ==
    /\ last.op = "handle"
    /\ initialized
    /\ last.err = "ok"
    /\ NamesOf(Named(last.trace, Stages)) = Stages
    /\ last.result = Some(<<2, 3>>)

(***************************************************************************)
(* C12, as claimed: after a handle call has returned or raised, the        *)
(* handler's context field no longer holds the context of that request.    *)
(***************************************************************************)
C12_ContextNotRetained ==
    last.op = "handle" => context # last.ctx

(***************************************************************************)
(* C13: a handle call, and a direct inference call, whether it returns or  *)
(* raises at any stage, leaves model, device, map_location, manifest,      *)
(* mapping, torch_api_type, torch_cpp_python_module and initialized as     *)
(* they were, so the next call finds the handler a failed call found.      *)
(***************************************************************************)
C13_HandleFrame ==
    [][ last'.op \in {"handle", "inference"} => HandlerFieldsUnchanged ]_vars

\* C13 witness: a handle call on a Ready handler failed in its inference
\* stage, after the backend had been called.
C13_Witness ==
    /\ last.op = "handle"
    /\ initialized
    /\ last.err = "ModelError"
    /\ Reaches(last.trace)

(***************************************************************************)
(* C14: initialize attempts the label-mapping load exactly when the model  *)
(* load succeeded (one loader ran and nothing raised before), on the       *)
(* native compiled, native class-definition and foreign paths alike, as    *)
(* the last call it makes; when index_to_name.json is absent the call then *)
(* returns without raising, with initialized true and no mapping.          *)
(***************************************************************************)
MappingAttempted == "load_label_mapping" \in Fns(last.trace)

C14_MappingOptional ==
    InitCall =>
      /\ MappingAttempted <=> last.err \in {"ok", "MappingLoadError"}
      /\ MappingAttempted =>
            /\ Count(last.trace, Loaders) = 1
            /\ Count(last.trace, {"load_label_mapping"}) = 1
            /\ last.trace[Len(last.trace)].fn = "load_label_mapping"
            /\ model # None
      /\ (InitArtifact # "absent" /\ last.err \notin {"ok", "MappingLoadError"}) =>
            last.err \in {"KeyError", "MissingClassDefinitionFile",
                          "AmbiguousModelDefinition", "ArtifactLoadError",
                          "ParameterMismatch", "UnsupportedCombination",
                          "CompileError", "UnsupportedExecutionAPI"}
      /\ (MappingAttempted /\ Val(last.index_to_name) = "absent") =>
            /\ last.err = "ok"
            /\ initialized
            /\ mapping = None

\* C14 witness: the foreign path loaded the model, found no
\* index_to_name.json and the call returned with the handler Ready.
C14_Witness ==
    /\ InitCall
    /\ InitLoaders = {"load_model"}
    /\ Val(last.index_to_name) = "absent"
    /\ last.err = "ok"
    /\ initialized
    /\ mapping = None

(***************************************************************************)
(* C15: when the class-definition loader runs, it raises the missing-      *)
(* class-definition error exactly when the file is missing, before the     *)
(* module is imported, and the ambiguous-definition error exactly when the *)
(* file is there and the module defines a number of classes other than     *)
(* one; in the ambiguous case the parameter-state blob is not read, no     *)
(* class is instantiated, and model and initialized are left as they were  *)
(* (false, when the handler was not Ready).                                *)
(***************************************************************************)
C15_AmbiguousDefinition ==
    [][ (last'.op = "initialize" /\ "_load_pickled_model" \in Fns(last'.trace)) =>
          LET def == Val(last'.model_def)
              fns == Fns(last'.trace)
          IN  /\ (last'.err = "MissingClassDefinitionFile") <=> (def = None)
              /\ def = None => "import_module" \notin fns
              /\ (last'.err = "AmbiguousModelDefinition") <=> (def # None /\ Val(def) # 1)
              /\ last'.err = "AmbiguousModelDefinition" =>
                    /\ fns \cap {"torch.load", "model_class", "load_state_dict"} = {}
                    /\ model' = model
                    /\ initialized' = initialized
                    /\ initialized' = FALSE \/ initialized ]_vars

\* C15 witness: the module defined two classes and the loader refused it on
\* a handler that has no model and is not Ready.
C15_Witness ==
    /\ InitCall
    /\ last.model_def = Some(Some(2))
    /\ last.err = "AmbiguousModelDefinition"
    /\ model = None
    /\ ~initialized

(***************************************************************************)
(* C17, as claimed: once an initialize has succeeded (initialized is true, *)
(* and nothing resets it), inference takes the native path only with a     *)
(* model a native loader produced, and the foreign path (torch_api_type    *)
(* other than 'python') only with the foreign module loaded and a model    *)
(* that module's load_model returned.                                      *)
(***************************************************************************)
C17_DispatchMatchesModel ==
    initialized =>
      /\ torch_api_type = "python" =>
            /\ model # None
            /\ Val(model).producer \in {"torch.jit.load", "model_class"}
      /\ torch_api_type # "python" =>
            /\ torch_cpp_python_module # None
            /\ model # None
            /\ Val(model).producer = "load_model"

(***************************************************************************)
(* C16, as claimed: with handle calls running concurrently on a Ready      *)
(* handler, whenever a call is at its preprocess, inference or postprocess *)
(* stage the handler's context field holds the context of that call.       *)
(***************************************************************************)
C16_OwnContext ==
    \A t \in Threads :
        calls[t].pc # "outside" => context = calls[t].ctx

====
